---- MODULE Spec2Model ----
(***************************************************************************)
(* Model of the data-access layer of news-app-api: the articles model      *)
(* (fetchArticleById, updateArticleVotes, fetchArticles) and the comments  *)
(* model (fetchCommentsByArticleId, insertComment, removeComment,          *)
(* updateCommentVotes), each an async function that validates its          *)
(* arguments, awaits one db.query statement and inspects the reply.        *)
(*                                                                         *)
(* An async call is three steps: the synchronous part up to the await      *)
(* (validation, then the statement is handed to the store), the store      *)
(* executing that one statement atomically, and the continuation after the *)
(* await.  Calls of different callers interleave between those steps.      *)
(***************************************************************************)
EXTENDS Integers, Sequences, FiniteSets, TLC

\* ------------------------------------------------------------------ bounds
NumCallers == 2
MaxCalls == 3
MaxCallsSeq == 2

Callers == 1..NumCallers

\* ------------------------------------------------------- JavaScript values
\* A value is [t: typeof, k: kind of number, n: integer value, s: string].
Undef == [t |-> "undefined", k |-> "", n |-> 0, s |-> ""]
Null == [t |-> "object", k |-> "null", n |-> 0, s |-> ""]
Obj == [t |-> "object", k |-> "object", n |-> 0, s |-> ""]
Num(i) == [t |-> "number", k |-> "int", n |-> i, s |-> ""]
Frac == [t |-> "number", k |-> "frac", n |-> 0, s |-> "1.5"]
NaN == [t |-> "number", k |-> "NaN", n |-> 0, s |-> ""]
Str(x) == [t |-> "string", k |-> "", n |-> 0, s |-> x]
Bool(b) == [t |-> "boolean", k |-> "", n |-> IF b THEN 1 ELSE 0, s |-> ""]

\* ToBoolean(v) is false: the operand of `!incVotes`
Falsy(v) ==
    \/ v.t = "undefined"
    \/ v.t = "object" /\ v.k = "null"
    \/ v.t = "number" /\ v.k = "int" /\ v.n = 0
    \/ v.t = "number" /\ v.k = "NaN"
    \/ v.t = "string" /\ v.s = ""
    \/ v.t = "boolean" /\ v.n = 0

\* Number.isInteger(v): a number with an integral finite value, no coercion
NumberIsInteger(v) == v.t = "number" /\ v.k = "int"

\* ------------------------------------------------ text of the id tokens
\* The characters of the strings used as identifiers.
Chars(s) ==
    CASE s = "1" -> <<"1">>
      [] s = "2" -> <<"2">>
      [] s = "3" -> <<"3">>
      [] s = "9" -> <<"9">>
      [] s = "01" -> <<"0", "1">>
      [] s = "-1" -> <<"-", "1">>
      [] s = "0" -> <<"0">>
      [] s = "1.0" -> <<"1", ".", "0">>
      [] s = "1.5" -> <<"1", ".", "5">>
      [] s = "1e0" -> <<"1", "e", "0">>
      [] s = " 1" -> <<" ", "1">>
      [] s = "" -> <<>>
      [] s = "invalid_id" -> <<"i", "d">>
      [] OTHER -> <<"?">>

DigitVal(ch) ==
    CASE ch = "0" -> 0 [] ch = "1" -> 1 [] ch = "2" -> 2 [] ch = "3" -> 3
      [] ch = "4" -> 4 [] ch = "5" -> 5 [] ch = "6" -> 6 [] ch = "7" -> 7
      [] ch = "8" -> 8 [] ch = "9" -> 9 [] OTHER -> -1

IsDigit(ch) == DigitVal(ch) >= 0

AllDigits(cs) == Len(cs) > 0 /\ \A i \in 1..Len(cs) : IsDigit(cs[i])

RECURSIVE DigitsValue(_)
DigitsValue(cs) ==
    IF Len(cs) = 0 THEN 0
    ELSE 10 * DigitsValue(SubSeq(cs, 1, Len(cs) - 1)) + DigitVal(cs[Len(cs)])

RECURSIVE TrimLeft(_)
TrimLeft(cs) ==
    IF Len(cs) > 0 /\ cs[1] = " " THEN TrimLeft(Tail(cs)) ELSE cs

RECURSIVE TrimRight(_)
TrimRight(cs) ==
    IF Len(cs) > 0 /\ cs[Len(cs)] = " "
    THEN TrimRight(SubSeq(cs, 1, Len(cs) - 1)) ELSE cs

Trim(cs) == TrimRight(TrimLeft(cs))

HasSign(cs) == Len(cs) > 0 /\ cs[1] \in {"-", "+"}

Unsigned(cs) == IF HasSign(cs) THEN Tail(cs) ELSE cs

\* The store's reading of a text parameter bound to an integer column:
\* optional blanks, optional sign, decimal digits.  Anything else is the
\* error the tests see as "Invalid article ID" / "Invalid comment ID".
PgIntValid(s) == AllDigits(Unsigned(Trim(Chars(s))))

PgIntValue(s) ==
    LET cs == Trim(Chars(s))
        v == DigitsValue(Unsigned(cs))
    IN IF HasSign(cs) /\ cs[1] = "-" THEN 0 - v ELSE v


\* --- unary plus on a string (StringToNumber), decimal literals only
IndexOf(cs, S) ==
    IF \E i \in 1..Len(cs) : cs[i] \in S
    THEN CHOOSE i \in 1..Len(cs) : cs[i] \in S /\ \A j \in 1..(i - 1) : cs[j] \notin S
    ELSE 0

DigitsOrEmpty(cs) == \A i \in 1..Len(cs) : IsDigit(cs[i])

RECURSIVE Pow10(_)
Pow10(k) == IF k <= 0 THEN 1 ELSE 10 * Pow10(k - 1)

\* [ok: the text is a decimal literal, int: its value is integral]
DecimalLiteral(u) ==
    LET e == IndexOf(u, {"e", "E"})
        mant == IF e = 0 THEN u ELSE SubSeq(u, 1, e - 1)
        ex == IF e = 0 THEN <<>> ELSE SubSeq(u, e + 1, Len(u))
        exOk == e = 0 \/ AllDigits(Unsigned(ex))
        exVal == IF e = 0 \/ ~exOk THEN 0
                 ELSE IF HasSign(ex) /\ ex[1] = "-" THEN 0 - DigitsValue(Unsigned(ex))
                 ELSE DigitsValue(Unsigned(ex))
        d == IndexOf(mant, {"."})
        ip == IF d = 0 THEN mant ELSE SubSeq(mant, 1, d - 1)
        fp == IF d = 0 THEN <<>> ELSE SubSeq(mant, d + 1, Len(mant))
        mantOk == DigitsOrEmpty(ip) /\ DigitsOrEmpty(fp) /\ Len(ip) + Len(fp) > 0
        scale == exVal - Len(fp)
    IN [ok |-> mantOk /\ exOk,
        int |-> mantOk /\ exOk /\
                (scale >= 0 \/ DigitsValue(ip \o fp) % Pow10(0 - scale) = 0)]

\* Number.isInteger(+v) for a string v: blanks are trimmed, the empty
\* string is 0, anything that is no numeric literal is NaN
PlusIsInteger(s) ==
    LET cs == Trim(Chars(s))
    IN Len(cs) = 0 \/ DecimalLiteral(Unsigned(cs)).int

\* ------------------------------------------------------------- the store
\* Position of a text value in the store's ordering of text (ORDER BY).
Collate(s) ==
    CASE s = "A" -> 1
      [] s = "Living" -> 2
      [] s = "Z" -> 3
      [] s = "butter_bridge" -> 4
      [] s = "cats" -> 5
      [] s = "icellusedkars" -> 6
      [] s = "mitch" -> 7
      [] s = "paper" -> 8
      [] OTHER -> 0

Topics == {"mitch", "cats", "paper"}

Users == {"butter_bridge", "icellusedkars"}

\* The seeded articles table, keyed by article_id.
InitArticles ==
    (1 :> [article_id |-> 1, title |-> "Living", topic |-> "mitch",
           author |-> "butter_bridge", body |-> "b1", created_at |-> 3,
           votes |-> 1])
 @@ (2 :> [article_id |-> 2, title |-> "A", topic |-> "mitch",
           author |-> "icellusedkars", body |-> "b2", created_at |-> 1,
           votes |-> 0])
 @@ (3 :> [article_id |-> 3, title |-> "Z", topic |-> "cats",
           author |-> "butter_bridge", body |-> "b3", created_at |-> 2,
           votes |-> 0])

\* The seeded comments table, keyed by comment_id.
InitComments ==
    (1 :> [comment_id |-> 1, article_id |-> 1, author |-> "butter_bridge",
           body |-> "c1", votes |-> 0])
 @@ (2 :> [comment_id |-> 2, article_id |-> 1, author |-> "icellusedkars",
           body |-> "c2", votes |-> 0])

VARIABLES
    articles,        \* articles table: article_id -> row
    comments,        \* comments table: comment_id -> row
    comment_id_seq,  \* next value of the comments.comment_id sequence
    calls,           \* per caller: the call it is in
    budget,          \* calls that may still be started
    acked,           \* <<table, id>> -> sum of the deltas of the vote
                     \* updates on that row that have returned their row
    http             \* the request the application answered last

vars == <<articles, comments, comment_id_seq, calls, budget, acked, http>>

store == <<articles, comments, comment_id_seq>>

\* ------------------------------------------------------------ statements
NoStmt == [sql |-> "", id |-> "", inc |-> 0, author |-> Undef,
           body |-> Undef, sortBy |-> "", order |-> ""]

NoReply == [err |-> "", rows |-> <<>>, rowCount |-> 0]

Rows(rs) == [err |-> "", rows |-> rs, rowCount |-> Len(rs)]

DbError(code) == [err |-> code, rows |-> <<>>, rowCount |-> 0]

\* articles LEFT JOIN comments ON articles.article_id = comments.article_id,
\* restricted to one article: one joined row per matching comment, or one
\* row with a NULL comment (comment_id 0 stands for NULL) when none matches.
LeftJoin(a, cs) ==
    LET m == {c \in DOMAIN cs : cs[c].article_id = a.article_id}
    IN IF m = {} THEN {[article |-> a, comment_id |-> 0]}
       ELSE {[article |-> a, comment_id |-> c] : c \in m}

\* COUNT(*) counts the joined rows, so an article without comments counts 1
CountStar(group) == Cardinality(group)

\* COUNT(comments.comment_id)::int over a group: the non-NULL comment ids
CountCommentId(group) == Cardinality({j \in group : j.comment_id # 0})

\* SELECT articles.*, COUNT(comments.comment_id)::int AS comment_count
ArticleWithCount(a, cs) ==
    [article_id |-> a.article_id, title |-> a.title, topic |-> a.topic,
     author |-> a.author, body |-> a.body, created_at |-> a.created_at,
     votes |-> a.votes, comment_count |-> CountCommentId(LeftJoin(a, cs))]

\* WHERE articles.article_id = $1 matches any article whatever $1 is
SelectArticleAny(as, cs, id) ==
    LET hit == {a \in DOMAIN as : TRUE}
    IN IF ~PgIntValid(id) THEN DbError("22P02")
       ELSE IF hit = {} THEN Rows(<<>>)
       ELSE Rows(<<ArticleWithCount(as[CHOOSE a \in hit : TRUE], cs)>>)

\* fetchArticleById's statement: the article with that id, with its count
SelectArticle(as, cs, id) ==
    IF ~PgIntValid(id) THEN DbError("22P02")
    ELSE IF PgIntValue(id) \notin DOMAIN as THEN Rows(<<>>)
    ELSE Rows(<<ArticleWithCount(as[PgIntValue(id)], cs)>>)

\* SET votes = $2: an absolute overwrite
SetArticleVotesAbsolute(row, inc) == [row EXCEPT !.votes = inc]

\* SET votes = votes + $2, evaluated by the store on the stored row
SetArticleVotes(row, inc) == [row EXCEPT !.votes = row.votes + inc]

\* The UPDATE without its WHERE clause: every article is updated
UpdateArticlesEveryRow(as, id, inc) ==
    IF PgIntValid(id) /\ PgIntValue(id) \in DOMAIN as
    THEN [a \in DOMAIN as |-> SetArticleVotes(as[a], inc)]
    ELSE as

\* A read-modify-write: the new votes is computed from a value of the row
\* read earlier (the seeded one) and written back
UpdateArticlesFromSnapshot(as, id, inc) ==
    IF PgIntValid(id) /\ PgIntValue(id) \in DOMAIN as
    THEN [as EXCEPT ![PgIntValue(id)].votes = InitArticles[PgIntValue(id)].votes + inc]
    ELSE as

\* UPDATE articles SET votes = votes + $2 WHERE article_id = $1
\* RETURNING *: the table after the statement
UpdateArticles(as, id, inc) ==
    IF PgIntValid(id) /\ PgIntValue(id) \in DOMAIN as
    THEN [as EXCEPT ![PgIntValue(id)] = SetArticleVotes(as[PgIntValue(id)], inc)]
    ELSE as

\* RETURNING the row as it was before the update
UpdateArticlesReplyOld(as, id, inc) ==
    IF ~PgIntValid(id) THEN DbError("22P02")
    ELSE IF PgIntValue(id) \notin DOMAIN as THEN Rows(<<>>)
    ELSE Rows(<<as[PgIntValue(id)]>>)

\* ... and its reply: the updated row, if one matched
UpdateArticlesReply(as, id, inc) ==
    IF ~PgIntValid(id) THEN DbError("22P02")
    ELSE IF PgIntValue(id) \notin DOMAIN as THEN Rows(<<>>)
    ELSE Rows(<<SetArticleVotes(as[PgIntValue(id)], inc)>>)

\* SET votes = $2 on a comment: an absolute overwrite
SetCommentVotesAbsolute(row, inc) == [row EXCEPT !.votes = inc]

\* UPDATE comments SET votes = votes + $2 WHERE comment_id = $1 RETURNING *
SetCommentVotes(row, inc) == [row EXCEPT !.votes = row.votes + inc]

UpdateComments(cs, id, inc) ==
    IF PgIntValid(id) /\ PgIntValue(id) \in DOMAIN cs
    THEN [cs EXCEPT ![PgIntValue(id)] = SetCommentVotes(cs[PgIntValue(id)], inc)]
    ELSE cs

UpdateCommentsReply(cs, id, inc) ==
    IF ~PgIntValid(id) THEN DbError("22P02")
    ELSE IF PgIntValue(id) \notin DOMAIN cs THEN Rows(<<>>)
    ELSE Rows(<<SetCommentVotes(cs[PgIntValue(id)], inc)>>)

\* --- fetchArticles' statement
SortableColumns == {"author", "title", "article_id", "topic", "created_at", "votes"}

Directions == {"asc", "desc"}

\* The value ORDER BY compares for an output column of the listing
SortKey(r, col) ==
    CASE col = "author" -> Collate(r.author)
      [] col = "title" -> Collate(r.title)
      [] col = "article_id" -> r.article_id
      [] col = "topic" -> Collate(r.topic)
      [] col = "created_at" -> r.created_at
      [] col = "votes" -> r.votes
      [] OTHER -> 0

\* Rows in ascending order of the column whatever the direction asked
OrderedAscOnly(rs, col, ord) ==
    \A i, j \in 1..Len(rs) : i < j => SortKey(rs[i], col) <= SortKey(rs[j], col)

\* ORDER BY col ord: ties may come in any order
Ordered(rs, col, ord) ==
    \A i, j \in 1..Len(rs) : i < j =>
        IF ord = "asc" THEN SortKey(rs[i], col) <= SortKey(rs[j], col)
        ELSE SortKey(rs[i], col) >= SortKey(rs[j], col)

\* The listing's select list with articles.body left in
ListedWithBody(a, cs) ==
    [author |-> a.author, title |-> a.title, article_id |-> a.article_id,
     topic |-> a.topic, body |-> a.body, created_at |-> a.created_at,
     votes |-> a.votes, comment_count |-> CountCommentId(LeftJoin(a, cs))]

\* SELECT articles.author, title, article_id, topic, created_at, votes,
\* COUNT(comments.comment_id)::int AS comment_count ... GROUP BY article_id
Listed(a, cs) ==
    [author |-> a.author, title |-> a.title, article_id |-> a.article_id,
     topic |-> a.topic, created_at |-> a.created_at, votes |-> a.votes,
     comment_count |-> CountCommentId(LeftJoin(a, cs))]

\* All the ways to put the elements of a finite set in a sequence
Orderings(S) ==
    {f \in [1..Cardinality(S) -> S] :
        \A i, j \in 1..Cardinality(S) : i # j => f[i] # f[j]}

\* The replies the listing statement may give: one row per article, in an
\* order that respects ORDER BY
SelectArticles(as, cs, col, ord) ==
    {Rows(rs) : rs \in {p \in Orderings({Listed(as[a], cs) : a \in DOMAIN as}) :
                            Ordered(p, col, ord)}}

\* --- the comments statements
\* SELECT * FROM comments WHERE article_id = $1, rows in any order
SelectComments(cs, id) ==
    IF ~PgIntValid(id) THEN {DbError("22P02")}
    ELSE {Rows(rs) : rs \in Orderings(
              {cs[c] : c \in {k \in DOMAIN cs : cs[k].article_id = PgIntValue(id)}})}

\* The foreign keys checked before the NOT NULL columns
InsertViolationFkFirst(as, id, author, body) ==
    IF ~PgIntValid(id) THEN {"22P02"}
    ELSE LET fk == (IF PgIntValue(id) \notin DOMAIN as
                    THEN {"23503 article_id"} ELSE {})
                   \cup (IF author.t = "string" /\ author.s \notin Users
                         THEN {"23503 author"} ELSE {})
         IN IF fk # {} THEN fk
            ELSE IF author.t # "string" \/ body.t # "string" THEN {"23502"}
            ELSE {""}

\* What the comments table's constraints may say of an INSERT: the codes
\* the store may refuse it with, "" when it is accepted.  article_id is an
\* integer referencing articles, author references users, author and body
\* are NOT NULL (an undefined parameter is sent as NULL).  NOT NULL is
\* checked when the row is formed, the foreign keys after it; when both
\* foreign keys fail either may be the one reported.
InsertViolation(as, id, author, body) ==
    IF ~PgIntValid(id) THEN {"22P02"}
    ELSE IF author.t # "string" \/ body.t # "string" THEN {"23502"}
    ELSE LET fk == (IF PgIntValue(id) \notin DOMAIN as
                    THEN {"23503 article_id"} ELSE {})
                   \cup (IF author.s \notin Users THEN {"23503 author"} ELSE {})
         IN IF fk # {} THEN fk ELSE {""}

\* The INSERT with $2 and $3 bound the other way round
NewCommentSwapped(seq, id, author, body) ==
    [comment_id |-> seq, article_id |-> PgIntValue(id), author |-> body.s,
     body |-> author.s, votes |-> 0]

\* The row INSERT ... RETURNING * gives: votes takes its default 0 and
\* comment_id the next value of the sequence
NewComment(seq, id, author, body) ==
    [comment_id |-> seq, article_id |-> PgIntValue(id), author |-> author.s,
     body |-> body.s, votes |-> 0]

\* The DELETE keyed on the wrong column: every comment of the article the
\* named comment belongs to goes
DeleteCommentsOfArticle(cs, id) ==
    IF PgIntValid(id) /\ PgIntValue(id) \in DOMAIN cs
    THEN LET gone == {c \in DOMAIN cs : cs[c].article_id = cs[PgIntValue(id)].article_id}
         IN [c \in DOMAIN cs \ gone |-> cs[c]]
    ELSE cs

\* DELETE FROM comments WHERE comment_id = $1: the table afterwards
DeleteComment(cs, id) ==
    IF PgIntValid(id) /\ PgIntValue(id) \in DOMAIN cs
    THEN [c \in DOMAIN cs \ {PgIntValue(id)} |-> cs[c]]
    ELSE cs

\* ... and its reply, which carries rowCount
DeleteReply(cs, id) ==
    IF ~PgIntValid(id) THEN DbError("22P02")
    ELSE [err |-> "", rows |-> <<>>,
          rowCount |-> IF PgIntValue(id) \in DOMAIN cs THEN 1 ELSE 0]


\* ----------------------------------------------------------------- calls
NoRes == [kind |-> "none", status |-> 0, msg |-> "", rows |-> <<>>, err |-> ""]

\* return Promise.reject({ status, msg })
Reject(status, msg) ==
    [kind |-> "reject", status |-> status, msg |-> msg, rows |-> <<>>, err |-> ""]

\* return <row or rows>
Return(rs) == [kind |-> "return", status |-> 0, msg |-> "", rows |-> rs, err |-> ""]

\* the awaited db.query rejected: the async function rejects with its error
Throw(code) == [kind |-> "throw", status |-> 0, msg |-> "", rows |-> <<>>, err |-> code]

Idle ==
    [op |-> "", id |-> Undef, incVotes |-> Undef, sortBy |-> Undef,
     order |-> Undef, topic |-> Undef, author |-> Undef, body |-> Undef,
     pc |-> "idle", stmt |-> NoStmt, reply |-> NoReply, res |-> NoRes]

\* The call settles with res without reaching the store
Settle(call, res) == [call EXCEPT !.pc = "done", !.res = res]

\* The call hands stmt to db.query and waits
Await(call, stmt) == [call EXCEPT !.pc = "awaiting", !.stmt = stmt]

CanCall(c) == budget > 0 /\ calls[c].pc \in {"idle", "done"}

\* No request answered yet
NoRequest == [method |-> "", path |-> <<>>, body |-> "", handler |-> "",
              status |-> 0, msg |-> ""]

\* The store as seeded, nobody calling
Seeded ==
    /\ articles = InitArticles
    /\ comments = InitComments
    /\ comment_id_seq = 3
    /\ calls = [c \in Callers |-> Idle]
    /\ http = NoRequest

Init ==
    /\ Seeded
    /\ budget = MaxCalls
    /\ acked = [k \in {} |-> 0]

\* The sum acked for a row, 0 when no update of it has returned
Acked(tbl, id) == IF <<tbl, id>> \in DOMAIN acked THEN acked[<<tbl, id>>] ELSE 0

Ack(tbl, id, d) ==
    IF <<tbl, id>> \in DOMAIN acked
    THEN [acked EXCEPT ![<<tbl, id>>] = @ + d]
    ELSE acked @@ (<<tbl, id>> :> d)

\* ------------------------------------------------------ fetchArticleById
fetchArticleById(c, articleId) ==
    /\ CanCall(c)
    /\ budget' = budget - 1
    /\ calls' = [calls EXCEPT ![c] =
          Await([Idle EXCEPT !.op = "fetchArticleById", !.id = articleId],
                [NoStmt EXCEPT !.sql = "SELECT article", !.id = articleId.s])]
    /\ UNCHANGED <<http, store, acked>>

fetchArticleById_query(c) ==
    /\ calls[c].pc = "awaiting" /\ calls[c].stmt.sql = "SELECT article"
    /\ calls' = [calls EXCEPT ![c].pc = "resumed",
                              ![c].reply = SelectArticle(articles, comments, calls[c].stmt.id)]
    /\ UNCHANGED <<http, store, budget, acked>>

\* What the code after the await makes of the reply
FetchArticleOutcome(reply) ==
    IF reply.err # "" THEN Throw(reply.err)
    ELSE IF Len(reply.rows) = 0 THEN Reject(404, "Article ID not found")
    ELSE Return(<<reply.rows[1]>>)

fetchArticleById_return(c) ==
    /\ calls[c].pc = "resumed" /\ calls[c].op = "fetchArticleById"
    /\ calls' = [calls EXCEPT ![c] = Settle(@, FetchArticleOutcome(@.reply))]
    /\ UNCHANGED <<http, store, budget, acked>>

\* ---------------------------------------------------- updateArticleVotes
MissingIncVotes == "Missing inc_votes data in request body"

InvalidIncVotes == "Invalid inc_votes data in request body"

\* The two checks with `incVotes === undefined` for the first
IncVotesErrorUndefinedOnly(incVotes) ==
    IF incVotes.t = "undefined" THEN MissingIncVotes
    ELSE IF ~NumberIsInteger(incVotes) THEN InvalidIncVotes
    ELSE ""

\* No check of incVotes at all
ArticleIncVotesErrorNone(incVotes) == ""

\* updateArticleVotes' checks of incVotes: the message it rejects with, or ""
ArticleIncVotesError(incVotes) ==
    IF Falsy(incVotes) THEN MissingIncVotes
    ELSE IF ~NumberIsInteger(incVotes) THEN InvalidIncVotes
    ELSE ""

updateArticleVotes(c, articleId, incVotes) ==
    /\ CanCall(c)
    /\ budget' = budget - 1
    /\ LET call == [Idle EXCEPT !.op = "updateArticleVotes", !.id = articleId,
                                !.incVotes = incVotes]
           e == ArticleIncVotesError(incVotes)
       IN calls' = [calls EXCEPT ![c] =
             IF e # "" THEN Settle(call, Reject(400, e))
             ELSE Await(call, [NoStmt EXCEPT !.sql = "UPDATE articles",
                                            !.id = articleId.s, !.inc = incVotes.n])]
    /\ UNCHANGED <<http, store, acked>>

updateArticleVotes_query(c) ==
    /\ calls[c].pc = "awaiting" /\ calls[c].stmt.sql = "UPDATE articles"
    /\ articles' = UpdateArticles(articles, calls[c].stmt.id, calls[c].stmt.inc)
    /\ calls' = [calls EXCEPT ![c].pc = "resumed",
                              ![c].reply = UpdateArticlesReply(articles, calls[c].stmt.id,
                                                            calls[c].stmt.inc)]
    /\ UNCHANGED <<http, comments, comment_id_seq, budget, acked>>

\* The continuation that reports a missing row as success
UpdateArticleOutcomeNoCheck(reply) ==
    IF reply.err # "" THEN Throw(reply.err) ELSE Return(reply.rows)

UpdateArticleOutcome(reply) ==
    IF reply.err # "" THEN Throw(reply.err)
    ELSE IF Len(reply.rows) = 0 THEN Reject(404, "Article ID not found")
    ELSE Return(<<reply.rows[1]>>)

updateArticleVotes_return(c) ==
    /\ calls[c].pc = "resumed" /\ calls[c].op = "updateArticleVotes"
    /\ calls' = [calls EXCEPT ![c] = Settle(@, UpdateArticleOutcome(@.reply))]
    /\ acked' = IF UpdateArticleOutcome(calls[c].reply).kind = "return"
                   /\ Len(calls[c].reply.rows) > 0
                THEN Ack("articles", calls[c].reply.rows[1].article_id, calls[c].stmt.inc)
                ELSE acked
    /\ UNCHANGED <<http, store, budget>>


\* --------------------------------------------------------- fetchArticles
\* A parameter's default applies when the argument is undefined
Default(v, d) == IF v.t = "undefined" THEN Str(d) ELSE v

\* validSortByColumns.includes(v) / validOrders.includes(v)
Includes(S, v) == v.t = "string" /\ v.s \in S

\* The checks with the order check left out
FetchArticlesErrorNoOrder(sortBy, order) ==
    IF ~Includes(SortableColumns, sortBy) THEN "Invalid sort_by query" ELSE ""

\* fetchArticles' checks, on the arguments after defaulting
FetchArticlesError(sortBy, order) ==
    IF ~Includes(SortableColumns, sortBy) THEN "Invalid sort_by query"
    ELSE IF ~Includes(Directions, order) THEN "Invalid order query"
    ELSE ""

\* A third argument is accepted by the call and never read
fetchArticles(c, sortBy, order, topic) ==
    /\ CanCall(c)
    /\ budget' = budget - 1
    /\ LET call == [Idle EXCEPT !.op = "fetchArticles", !.sortBy = sortBy,
                                !.order = order, !.topic = topic]
           sb == Default(sortBy, "created_at")
           od == Default(order, "desc")
           e == FetchArticlesError(sb, od)
       IN calls' = [calls EXCEPT ![c] =
             IF e # "" THEN Settle(call, Reject(400, e))
             ELSE Await(call, [NoStmt EXCEPT !.sql = "SELECT articles",
                                            !.sortBy = sb.s, !.order = od.s])]
    /\ UNCHANGED <<http, store, acked>>

fetchArticles_query(c) ==
    /\ calls[c].pc = "awaiting" /\ calls[c].stmt.sql = "SELECT articles"
    /\ \E r \in SelectArticles(articles, comments, calls[c].stmt.sortBy, calls[c].stmt.order) :
          calls' = [calls EXCEPT ![c].pc = "resumed", ![c].reply = r]
    /\ UNCHANGED <<http, store, budget, acked>>

\* An awaited query that fails throws; otherwise the rows are returned as is
RowsOutcome(reply) ==
    IF reply.err # "" THEN Throw(reply.err) ELSE Return(reply.rows)

fetchArticles_return(c) ==
    /\ calls[c].pc = "resumed" /\ calls[c].op = "fetchArticles"
    /\ calls' = [calls EXCEPT ![c] = Settle(@, RowsOutcome(@.reply))]
    /\ UNCHANGED <<http, store, budget, acked>>

\* ---------------------------------------------- fetchCommentsByArticleId
fetchCommentsByArticleId(c, articleId) ==
    /\ CanCall(c)
    /\ budget' = budget - 1
    /\ calls' = [calls EXCEPT ![c] =
          Await([Idle EXCEPT !.op = "fetchCommentsByArticleId", !.id = articleId],
                [NoStmt EXCEPT !.sql = "SELECT comments", !.id = articleId.s])]
    /\ UNCHANGED <<http, store, acked>>

fetchCommentsByArticleId_query(c) ==
    /\ calls[c].pc = "awaiting" /\ calls[c].stmt.sql = "SELECT comments"
    /\ \E r \in SelectComments(comments, calls[c].stmt.id) :
          calls' = [calls EXCEPT ![c].pc = "resumed", ![c].reply = r]
    /\ UNCHANGED <<http, store, budget, acked>>

fetchCommentsByArticleId_return(c) ==
    /\ calls[c].pc = "resumed" /\ calls[c].op = "fetchCommentsByArticleId"
    /\ calls' = [calls EXCEPT ![c] = Settle(@, RowsOutcome(@.reply))]
    /\ UNCHANGED <<http, store, budget, acked>>

\* --------------------------------------------------------- insertComment
insertComment(c, articleId, author, body) ==
    /\ CanCall(c)
    /\ budget' = budget - 1
    /\ calls' = [calls EXCEPT ![c] =
          Await([Idle EXCEPT !.op = "insertComment", !.id = articleId,
                             !.author = author, !.body = body],
                [NoStmt EXCEPT !.sql = "INSERT comments", !.id = articleId.s,
                               !.author = author, !.body = body])]
    /\ UNCHANGED <<http, store, acked>>

\* The sequence value is taken before the constraints are checked, so a
\* rejected row still uses one up; a parameter that is no integer fails
\* before the statement runs.
insertComment_query(c) ==
    /\ calls[c].pc = "awaiting" /\ calls[c].stmt.sql = "INSERT comments"
    /\ \E v \in InsertViolation(articles, calls[c].stmt.id, calls[c].stmt.author,
                                 calls[c].stmt.body) :
          LET st == calls[c].stmt
              row == NewComment(comment_id_seq, st.id, st.author, st.body)
          IN /\ comment_id_seq' = IF v = "22P02" THEN comment_id_seq
                                   ELSE comment_id_seq + 1
             /\ comments' = IF v = "" THEN comments @@ (comment_id_seq :> row)
                             ELSE comments
             /\ calls' = [calls EXCEPT ![c].pc = "resumed",
                             ![c].reply = IF v = "" THEN Rows(<<row>>) ELSE DbError(v)]
    /\ UNCHANGED <<http, articles, budget, acked>>

\* const { rows: [comment] } = await ...; return comment
FirstRowOutcome(reply) ==
    IF reply.err # "" THEN Throw(reply.err) ELSE Return(SubSeq(reply.rows, 1, 1))

insertComment_return(c) ==
    /\ calls[c].pc = "resumed" /\ calls[c].op = "insertComment"
    /\ calls' = [calls EXCEPT ![c] = Settle(@, FirstRowOutcome(@.reply))]
    /\ UNCHANGED <<http, store, budget, acked>>

\* What the error handlers the application registers answer when
\* insertComment has failed: a { status, msg } rejection goes out as it is,
\* a refusal of the store is answered by its kind
InsertCommentAnswer(res) ==
    CASE res.kind = "reject" -> <<res.status, res.msg>>
      [] res.kind = "throw" /\ res.err = "22P02" -> <<400, "Invalid article ID">>
      [] res.kind = "throw" /\ res.err = "23502" -> <<400, "Missing data in request body">>
      [] res.kind = "throw" /\ res.err = "23503 author" -> <<404, "Username not found">>
      [] res.kind = "throw" /\ res.err = "23503 article_id" -> <<404, "Article ID not found">>
      [] OTHER -> <<500, "">>

\* --------------------------------------------------------- removeComment
\* !Number.isInteger(+commentId)
CommentIdError(commentId) ==
    IF ~PlusIsInteger(commentId.s) THEN "Invalid comment ID" ELSE ""

removeComment(c, commentId) ==
    /\ CanCall(c)
    /\ budget' = budget - 1
    /\ LET call == [Idle EXCEPT !.op = "removeComment", !.id = commentId]
           e == CommentIdError(commentId)
       IN calls' = [calls EXCEPT ![c] =
             IF e # "" THEN Settle(call, Reject(400, e))
             ELSE Await(call, [NoStmt EXCEPT !.sql = "DELETE comments",
                                            !.id = commentId.s])]
    /\ UNCHANGED <<http, store, acked>>

removeComment_query(c) ==
    /\ calls[c].pc = "awaiting" /\ calls[c].stmt.sql = "DELETE comments"
    /\ comments' = DeleteComment(comments, calls[c].stmt.id)
    /\ calls' = [calls EXCEPT ![c].pc = "resumed",
                              ![c].reply = DeleteReply(comments, calls[c].stmt.id)]
    /\ UNCHANGED <<http, articles, comment_id_seq, budget, acked>>

\* The continuation without the rowCount test
RemoveCommentOutcomeNoCheck(reply) ==
    IF reply.err # "" THEN Throw(reply.err) ELSE Return(<<>>)

RemoveCommentOutcome(reply) ==
    IF reply.err # "" THEN Throw(reply.err)
    ELSE IF reply.rowCount = 0 THEN Reject(404, "Comment ID not found")
    ELSE Return(<<>>)

removeComment_return(c) ==
    /\ calls[c].pc = "resumed" /\ calls[c].op = "removeComment"
    /\ calls' = [calls EXCEPT ![c] = Settle(@, RemoveCommentOutcome(@.reply))]
    /\ UNCHANGED <<http, store, budget, acked>>

\* ---------------------------------------------------- updateCommentVotes
\* The two checks in the other order
CommentIncVotesErrorSwapped(incVotes) ==
    IF ~NumberIsInteger(incVotes) THEN InvalidIncVotes
    ELSE IF Falsy(incVotes) THEN MissingIncVotes
    ELSE ""

CommentIncVotesError(incVotes) ==
    IF Falsy(incVotes) THEN MissingIncVotes
    ELSE IF ~NumberIsInteger(incVotes) THEN InvalidIncVotes
    ELSE ""

updateCommentVotes(c, commentId, incVotes) ==
    /\ CanCall(c)
    /\ budget' = budget - 1
    /\ LET call == [Idle EXCEPT !.op = "updateCommentVotes", !.id = commentId,
                                !.incVotes = incVotes]
           e == CommentIncVotesError(incVotes)
       IN calls' = [calls EXCEPT ![c] =
             IF e # "" THEN Settle(call, Reject(400, e))
             ELSE Await(call, [NoStmt EXCEPT !.sql = "UPDATE comments",
                                            !.id = commentId.s, !.inc = incVotes.n])]
    /\ UNCHANGED <<http, store, acked>>

updateCommentVotes_query(c) ==
    /\ calls[c].pc = "awaiting" /\ calls[c].stmt.sql = "UPDATE comments"
    /\ comments' = UpdateComments(comments, calls[c].stmt.id, calls[c].stmt.inc)
    /\ calls' = [calls EXCEPT ![c].pc = "resumed",
                              ![c].reply = UpdateCommentsReply(comments, calls[c].stmt.id,
                                                            calls[c].stmt.inc)]
    /\ UNCHANGED <<http, articles, comment_id_seq, budget, acked>>

UpdateCommentOutcome(reply) ==
    IF reply.err # "" THEN Throw(reply.err)
    ELSE IF Len(reply.rows) = 0 THEN Reject(404, "Comment ID not found")
    ELSE Return(<<reply.rows[1]>>)

updateCommentVotes_return(c) ==
    /\ calls[c].pc = "resumed" /\ calls[c].op = "updateCommentVotes"
    /\ calls' = [calls EXCEPT ![c] = Settle(@, UpdateCommentOutcome(@.reply))]
    /\ acked' = IF UpdateCommentOutcome(calls[c].reply).kind = "return"
                   /\ Len(calls[c].reply.rows) > 0
                THEN Ack("comments", calls[c].reply.rows[1].comment_id, calls[c].stmt.inc)
                ELSE acked
    /\ UNCHANGED <<http, store, budget>>


\* ------------------------------------------------- a whole call's effect
\* The articles table after a call of updateArticleVotes that runs alone:
\* untouched when the checks reject incVotes, else as the UPDATE leaves it
ArticleVotesCall(as, id, incVotes) ==
    IF ArticleIncVotesError(incVotes) # "" THEN as
    ELSE UpdateArticles(as, id.s, incVotes.n)

\* The comments table after a call of updateCommentVotes that runs alone
CommentVotesCall(cs, id, incVotes) ==
    IF CommentIncVotesError(incVotes) # "" THEN cs
    ELSE UpdateComments(cs, id.s, incVotes.n)

\* ------------------------------------------------------- the input sets
\* Concurrent callers: a few arguments of each operation
Deltas == {Num(1), Num(-2)}

\* One caller at a time: every kind of argument
AllIds == {Str("1"), Str("2"), Str("9"), Str("invalid_id"), Str(" 1"), Str("1.0")}

\* removeComment's ids: also the integers that are not positive
CommentIds == AllIds \cup {Str("-1"), Str("0")}

IncVotesValues ==
    {Undef, Null, Obj, NaN, Frac, Num(0), Num(1), Num(-1),
     Str(""), Str("1"), Str("invalid data"), Bool(TRUE), Bool(FALSE)}

SortByValues ==
    {Undef, Null, Str("invalid-sort-query"), Str("body")}
        \cup {Str(x) : x \in SortableColumns}

OrderValues ==
    {Undef, Str("invalid-order_query"), Str("ASC"), Str("asc"), Str("desc")}

TopicValues == {Str("mitch"), Str("cats"), Str("paper"), Str("non-existent-topic")}

AuthorValues == {Undef, Str("butter_bridge"), Str("nobody")}

BodyValues == {Undef, Str("c")}

\* ------------------------------------------------------------------ Next
Query(c) ==
    \/ fetchArticleById_query(c)
    \/ updateArticleVotes_query(c)
    \/ fetchArticles_query(c)
    \/ fetchCommentsByArticleId_query(c)
    \/ insertComment_query(c)
    \/ removeComment_query(c)
    \/ updateCommentVotes_query(c)

Resume(c) ==
    \/ fetchArticleById_return(c)
    \/ updateArticleVotes_return(c)
    \/ fetchArticles_return(c)
    \/ fetchCommentsByArticleId_return(c)
    \/ insertComment_return(c)
    \/ removeComment_return(c)
    \/ updateCommentVotes_return(c)

\* Callers issue calls concurrently; their steps interleave at the awaits
Next ==
    \E c \in Callers :
        \/ \E id \in {Str("1"), Str("2")} : fetchArticleById(c, id)
        \/ \E d \in Deltas : updateArticleVotes(c, Str("1"), d)
        \/ fetchArticles(c, Str("votes"), Undef, Undef)
        \/ fetchCommentsByArticleId(c, Str("1"))
        \/ insertComment(c, Str("2"), Str("butter_bridge"), Str("c"))
        \/ removeComment(c, Str("1"))
        \/ \E d \in Deltas : updateCommentVotes(c, Str("1"), d)
        \/ Query(c)
        \/ Resume(c)

Spec == Init /\ [][Next]_vars

\* One caller, one call after the other, with every kind of argument
InitSeq ==
    /\ Seeded
    /\ budget = MaxCallsSeq
    /\ acked = [k \in {} |-> 0]

NextSeq ==
    \/ \E id \in AllIds : fetchArticleById(1, id)
    \/ \E id \in AllIds, v \in IncVotesValues : updateArticleVotes(1, id, v)
    \/ \E sb \in SortByValues, od \in OrderValues : fetchArticles(1, sb, od, Undef)
    \/ \E sb \in {Undef, Str("title")}, od \in {Undef, Str("asc")}, t \in TopicValues :
          fetchArticles(1, sb, od, t)
    \/ \E id \in AllIds : fetchCommentsByArticleId(1, id)
    \/ \E id \in AllIds, a \in AuthorValues, b \in BodyValues :
          insertComment(1, id, a, b)
    \/ \E id \in CommentIds : removeComment(1, id)
    \/ \E id \in AllIds, v \in IncVotesValues : updateCommentVotes(1, id, v)
    \/ Query(1)
    \/ Resume(1)

SpecSeq == InitSeq /\ [][NextSeq]_vars

\* ------------------------------------------------------- the application
\* A path is the sequence of its segments: "/api/topics" is <<"api",
\* "topics">>, "/" is <<>>, a trailing slash leaves an empty last segment
Methods == {"GET", "HEAD", "POST", "PUT", "PATCH", "DELETE", "OPTIONS"}

Paths ==
    {<<>>, <<"api">>, <<"api", "topics">>, <<"api", "topics", "1">>,
     <<"api", "articles">>, <<"api", "articles", "">>, <<"api", "articles", "1">>,
     <<"api", "articles", "invalid_id">>, <<"api", "articles", "999999">>,
     <<"api", "articles", "1", "comments">>, <<"api", "invalid-path">>,
     <<"api", "users">>, <<"api", "comments", "1">>, <<"topics">>,
     <<"articles", "1">>, <<"api", "article", "1">>}

\* What express.json finds in the request: no body, a JSON body, or a body
\* declared as JSON that does not parse
BodyKinds == {"none", "json", "malformed"}

\* The routes with the catch-all registered before them
RouteStackCatchAllFirst ==
    <<[method |-> "ALL", path |-> <<"*">>, handler |-> "invalidPath"],
      [method |-> "GET", path |-> <<"api", "topics">>, handler |-> "getTopics"],
      [method |-> "GET", path |-> <<"api", "articles", ":article_id">>,
       handler |-> "getArticleById"],
      [method |-> "PATCH", path |-> <<"api", "articles", ":article_id">>,
       handler |-> "patchArticleVotes"]>>

\* app.get / app.patch / app.all, in the order they are registered
RouteStack ==
    <<[method |-> "GET", path |-> <<"api", "topics">>, handler |-> "getTopics"],
      [method |-> "GET", path |-> <<"api", "articles", ":article_id">>,
       handler |-> "getArticleById"],
      [method |-> "PATCH", path |-> <<"api", "articles", ":article_id">>,
       handler |-> "patchArticleVotes"],
      [method |-> "ALL", path |-> <<"*">>, handler |-> "invalidPath"]>>

\* A route's path pattern against a request's path: "/*" takes every
\* path, a :parameter takes one segment that is not empty
MatchesPath(pattern, path) ==
    \/ pattern = <<"*">>
    \/ /\ Len(pattern) = Len(path)
       /\ \A i \in 1..Len(pattern) :
             IF pattern[i] = ":article_id" THEN path[i] # ""
             ELSE pattern[i] = path[i]

\* A route's method against a request's: app.all takes every method and a
\* GET route also takes HEAD
MatchesMethod(routeMethod, method) ==
    \/ routeMethod = "ALL"
    \/ routeMethod = method
    \/ routeMethod = "GET" /\ method = "HEAD"

\* The handler of the first route in the stack that matches
Dispatch(method, path) ==
    LET hits == {i \in 1..Len(RouteStack) :
                    /\ MatchesMethod(RouteStack[i].method, method)
                    /\ MatchesPath(RouteStack[i].path, path)}
    IN IF hits = {} THEN "none"
       ELSE RouteStack[CHOOSE i \in hits : \A j \in hits : i <= j].handler

\* The answers a route's handler gives: <<status, msg>>, msg "" when the
\* answer carries none
HandlerAnswers(handler) ==
    CASE handler = "invalidPath" -> {<<404, "Path not found">>}
      [] handler = "getTopics" -> {<<200, "">>}
      [] handler = "getArticleById" ->
            {<<200, "">>, <<404, "Article ID not found">>, <<400, "Invalid article ID">>}
      [] handler = "patchArticleVotes" ->
            {<<200, "">>, <<400, MissingIncVotes>>, <<400, InvalidIncVotes>>,
             <<404, "Article ID not found">>, <<400, "Invalid article ID">>}
      [] OTHER -> {<<404, "">>}

\* The answers of the error handlers to an error express.json raised
BodyErrorAnswers == {<<400, "">>, <<500, "">>}

\* One request through the application: express.json first, which on a
\* body that does not parse passes an error on, so that every route is
\* skipped and the error handlers answer; otherwise the routes in order
request(method, path, body) ==
    /\ LET h == IF body = "malformed" THEN "errorHandlers" ELSE Dispatch(method, path)
       IN \E a \in (IF body = "malformed" THEN BodyErrorAnswers ELSE HandlerAnswers(h)) :
             http' = [method |-> method, path |-> path, body |-> body,
                      handler |-> h, status |-> a[1], msg |-> a[2]]
    /\ UNCHANGED <<store, calls, budget, acked>>

InitRoute ==
    /\ Seeded
    /\ budget = 0
    /\ acked = [k \in {} |-> 0]

NextRoute == \E m \in Methods, p \in Paths, b \in BodyKinds : request(m, p, b)

SpecRoute == InitRoute /\ [][NextRoute]_vars


\* ================================================================ claims
\* The sum of the incVotes of the calls of the callers in S
RECURSIVE SumDeltas(_)
SumDeltas(S) ==
    IF S = {} THEN 0
    ELSE LET x == CHOOSE y \in S : TRUE
         IN calls[x].incVotes.n + SumDeltas(S \ {x})

\* The deltas of the updates the store has applied to a row for calls that
\* have not yet returned
Applied(op, key, id) ==
    LET S == {c \in Callers : /\ calls[c].pc = "resumed"
                              /\ calls[c].op = op
                              /\ Len(calls[c].reply.rows) = 1
                              /\ calls[c].reply.rows[1][key] = id}
    IN SumDeltas(S)

SeedVotes(tbl, id) == IF id \in DOMAIN tbl THEN tbl[id].votes ELSE 0

\* C1: under every interleaving of concurrent vote updates, a row's votes
\* is its initial votes plus the deltas of all the updates that succeeded on
\* it (those that have returned and those applied but not yet returned):
\* no increment is lost.  When nobody is mid-call this is initial votes
\* plus the sum of the deltas of the successful calls.
C1_NoLostIncrement ==
    /\ \A a \in DOMAIN articles :
          articles[a].votes = SeedVotes(InitArticles, a) + Acked("articles", a)
                              + Applied("updateArticleVotes", "article_id", a)
    /\ \A k \in DOMAIN comments :
          comments[k].votes = SeedVotes(InitComments, k) + Acked("comments", k)
                              + Applied("updateCommentVotes", "comment_id", k)

\* Two callers' updates of article 1 have both been applied by the store
\* while neither call has returned, and likewise finished concurrently
C1_Witness ==
    \E c1, c2 \in Callers :
        /\ c1 # c2
        /\ calls[c1].op = "updateArticleVotes" /\ calls[c2].op = "updateArticleVotes"
        /\ calls[c1].pc = "resumed" /\ calls[c2].pc = "resumed"
        /\ Len(calls[c1].reply.rows) = 1 /\ Len(calls[c2].reply.rows) = 1
        /\ calls[c1].incVotes # calls[c2].incVotes
        /\ articles[1].votes = InitArticles[1].votes + calls[c1].incVotes.n
                               + calls[c2].incVotes.n

\* The article an id text names, 0 when it names none that is stored
Named(id) ==
    IF PgIntValid(id.s) /\ PgIntValue(id.s) \in DOMAIN articles
    THEN PgIntValue(id.s) ELSE 0

NonZeroInteger(v) == v.t = "number" /\ v.k = "int" /\ v.n # 0

\* C2: updateArticleVotes with an existing articleId and a non-zero integer
\* incVotes sets the stored votes of that article to its previous votes plus
\* incVotes, and returns the updated row carrying the new votes value.
C2_RelativeUpdate ==
    [][\A c \in Callers :
          (calls[c].op = "updateArticleVotes" /\ NonZeroInteger(calls[c].incVotes)
           /\ Named(calls[c].id) # 0) =>
            LET a == Named(calls[c].id) IN
            /\ (calls[c].pc = "awaiting" /\ calls'[c].pc = "resumed") =>
                  /\ articles'[a].votes = articles[a].votes + calls[c].incVotes.n
                  /\ calls'[c].reply.rows = <<articles'[a]>>
            /\ (calls[c].pc = "resumed" /\ calls'[c].pc = "done") =>
                  /\ calls'[c].res.kind = "return"
                  /\ calls'[c].res.rows = calls[c].reply.rows
                  /\ calls'[c].res.rows[1].article_id = a]_vars

\* A negative delta has been applied to article 1 and its row returned
C2_Witness ==
    \E c \in Callers :
        /\ calls[c].op = "updateArticleVotes" /\ calls[c].pc = "done"
        /\ calls[c].incVotes = Num(-1) /\ calls[c].id = Str("1")
        /\ calls[c].res.kind = "return"
        /\ calls[c].res.rows[1].votes = articles[1].votes
        /\ articles[1].votes = InitArticles[1].votes - 1

\* A call of op begins in this step
Begins(c, op) == budget' = budget - 1 /\ calls'[c] # calls[c] /\ calls'[c].op = op

\* C3: updateArticleVotes with incVotes absent or falsy (undefined, null,
\* 0, and the other falsy values) fails at once with status 400 and
\* message 'Missing inc_votes data in request body', for every articleId,
\* and leaves every stored row unchanged.
C3_MissingIncVotes ==
    [][\A c \in Callers :
          (Begins(c, "updateArticleVotes")
           /\ calls'[c].incVotes \in {Undef, Null, Num(0), NaN, Str(""), Bool(FALSE)}) =>
            /\ calls'[c].pc = "done"
            /\ calls'[c].res = Reject(400, "Missing inc_votes data in request body")
            /\ calls'[c].stmt = NoStmt
            /\ store' = store]_vars

\* An explicit incVotes of 0 for an existing article has been rejected
C3_Witness ==
    \E c \in Callers :
        /\ calls[c].op = "updateArticleVotes" /\ calls[c].pc = "done"
        /\ calls[c].incVotes = Num(0) /\ calls[c].id = Str("1")
        /\ calls[c].res.status = 400

\* C4: updateArticleVotes with every incVotes that is present but is not an
\* integer (a string, a non-integer number, a boolean, an object) fails with
\* status 400 and message 'Invalid inc_votes data in request body'.
C4_InvalidIncVotes ==
    \A c \in Callers :
        (/\ calls[c].op = "updateArticleVotes" /\ calls[c].pc = "done"
         /\ \/ calls[c].incVotes.t \in {"string", "boolean"}
            \/ calls[c].incVotes \in {Frac, Obj}) =>
            calls[c].res = Reject(400, "Invalid inc_votes data in request body")

\* C5 as amended: with a valid non-zero integer incVotes and an articleId
\* that is a well-formed integer matching no stored article, the call fails
\* with status 404 and message 'Article ID not found', and its statement
\* leaves every stored row unchanged.
C5_ArticleNotFound ==
    [][\A c \in Callers :
          (calls[c].op = "updateArticleVotes" /\ NonZeroInteger(calls[c].incVotes)
           /\ PgIntValid(calls[c].id.s) /\ Named(calls[c].id) = 0) =>
            /\ (calls[c].pc = "awaiting" /\ calls'[c].pc = "resumed") => store' = store
            /\ (calls[c].pc = "resumed" /\ calls'[c].pc = "done") =>
                  calls'[c].res = Reject(404, "Article ID not found")
            /\ calls'[c].pc = "done" => calls'[c].res.kind = "reject"]_vars

\* Article 9 does not exist: the update has failed with 404
C5_Witness ==
    \E c \in Callers :
        /\ calls[c].op = "updateArticleVotes" /\ calls[c].pc = "done"
        /\ calls[c].id = Str("9") /\ calls[c].incVotes = Num(1)
        /\ calls[c].res = Reject(404, "Article ID not found")
        /\ articles = InitArticles

\* C5 as stated: every articleId that matches no stored article, whatever
\* its shape, gets 404 'Article ID not found'.
C5_Original ==
    \A c \in Callers :
        (/\ calls[c].op = "updateArticleVotes" /\ calls[c].pc = "done"
         /\ NonZeroInteger(calls[c].incVotes) /\ Named(calls[c].id) = 0) =>
            calls[c].res = Reject(404, "Article ID not found")


\* The stored comments of an article
CommentsOf(a) == {k \in DOMAIN comments : comments[k].article_id = a}

\* C6: whatever inserts, removals and vote updates came before, in whatever
\* interleaving, fetchArticleById on an existing article returns
\* comment_count equal to the number of stored comments whose article_id is
\* that article's id at the time of its query; with no comments it is the
\* integer 0.
C6_CommentCount ==
    [][\A c \in Callers :
          (calls[c].op = "fetchArticleById" /\ Named(calls[c].id) # 0) =>
            /\ (calls[c].pc = "awaiting" /\ calls'[c].pc = "resumed") =>
                  /\ Len(calls'[c].reply.rows) = 1
                  /\ "comment_count" \in DOMAIN calls'[c].reply.rows[1]
                  /\ calls'[c].reply.rows[1].comment_count \in Nat
                  /\ calls'[c].reply.rows[1].comment_count
                        = Cardinality(CommentsOf(Named(calls[c].id)))
            /\ (calls[c].pc = "resumed" /\ calls'[c].pc = "done") =>
                  /\ calls'[c].res.kind = "return"
                  /\ calls'[c].res.rows = calls[c].reply.rows]_vars

\* Article 2 was read with no comments (count 0) by one caller and, after
\* a comment was inserted on it, with count 1 by another
C6_Witness ==
    \E c1, c2 \in Callers :
        /\ calls[c1].op = "fetchArticleById" /\ calls[c1].pc = "done"
        /\ calls[c2].op = "fetchArticleById" /\ calls[c2].pc = "done"
        /\ calls[c1].id = Str("2") /\ calls[c2].id = Str("2")
        /\ calls[c1].res.kind = "return" /\ calls[c2].res.kind = "return"
        /\ calls[c1].res.rows[1].comment_count = 0
        /\ calls[c2].res.rows[1].comment_count = 1
        /\ Cardinality(CommentsOf(2)) = 1

\* C7 as amended: fetchArticleById fails with status 404 and message
\* 'Article ID not found' exactly when articleId is a well-formed integer
\* that no stored article has; when an article has that id it returns that
\* article and never a failure; an articleId that is no integer makes the
\* store refuse the statement and the call fails with the store's error.
C7_FetchArticleById ==
    \A c \in Callers :
        (calls[c].op = "fetchArticleById" /\ calls[c].pc = "done") =>
            LET id == calls[c].id.s
                res == calls[c].res
            IN /\ res = Reject(404, "Article ID not found")
                    <=> (PgIntValid(id) /\ PgIntValue(id) \notin DOMAIN articles)
               /\ (PgIntValid(id) /\ PgIntValue(id) \in DOMAIN articles) =>
                    /\ res.kind = "return" /\ Len(res.rows) = 1
                    /\ res.rows[1].article_id = PgIntValue(id)
                    /\ res.rows[1].title = articles[PgIntValue(id)].title
               /\ ~PgIntValid(id) => res = Throw("22P02")

\* One article was fetched and a missing one reported
C7_Witness ==
    \E c \in Callers :
        /\ calls[c].op = "fetchArticleById" /\ calls[c].pc = "done"
        /\ calls[c].id = Str("9")
        /\ calls[c].res = Reject(404, "Article ID not found")

\* C7 as stated: 404 'Article ID not found' exactly when no stored article
\* has that id.
C7_Original ==
    \A c \in Callers :
        (calls[c].op = "fetchArticleById" /\ calls[c].pc = "done") =>
            (calls[c].res = Reject(404, "Article ID not found")
                <=> Named(calls[c].id) = 0)

\* C8: fetchArticles fails with status 400 whenever the sortBy given is not
\* one of author, title, article_id, topic, created_at, votes ('Invalid
\* sort_by query', checked first) or the order given is not one of asc,
\* desc ('Invalid order query'); it succeeds for every listed sortBy and
\* order (an omitted one counts as listed); and no value outside the two
\* enumerations is ever placed into the statement's ORDER BY.
C8_SortValidation ==
    \A c \in Callers :
        (calls[c].op = "fetchArticles") =>
            LET sb == calls[c].sortBy
                od == calls[c].order
                sbListed == sb = Undef \/ sb \in {Str("author"), Str("title"),
                                Str("article_id"), Str("topic"), Str("created_at"),
                                Str("votes")}
                odListed == od = Undef \/ od \in {Str("asc"), Str("desc")}
            IN /\ ~sbListed =>
                    /\ calls[c].pc = "done"
                    /\ calls[c].res = Reject(400, "Invalid sort_by query")
               /\ (sbListed /\ ~odListed) =>
                    /\ calls[c].pc = "done"
                    /\ calls[c].res = Reject(400, "Invalid order query")
               /\ (sbListed /\ odListed /\ calls[c].pc = "done") =>
                    calls[c].res.kind = "return"
               /\ calls[c].stmt.sql # "" =>
                    /\ calls[c].stmt.sortBy \in
                          {"author", "title", "article_id", "topic", "created_at", "votes"}
                    /\ calls[c].stmt.order \in {"asc", "desc"}
                    /\ sb # Undef => calls[c].stmt.sortBy = sb.s
                    /\ od # Undef => calls[c].stmt.order = od.s

\* An upper-case ASC with a listed column has been refused
C8_Witness ==
    \E c \in Callers :
        /\ calls[c].op = "fetchArticles" /\ calls[c].pc = "done"
        /\ calls[c].sortBy = Str("votes") /\ calls[c].order = Str("ASC")
        /\ calls[c].res = Reject(400, "Invalid order query")


\* C9: fetchArticles with valid arguments returns every stored article
\* exactly once, without its body and with its comment_count, ordered by
\* the sortBy column in the requested direction; an omitted sortBy means
\* created_at and an omitted order means descending.
C9_Listing ==
    \A c \in Callers :
        (calls[c].op = "fetchArticles" /\ calls[c].pc = "done"
         /\ calls[c].res.kind = "return") =>
            LET rows == calls[c].res.rows
                col == IF calls[c].sortBy = Undef THEN "created_at" ELSE calls[c].sortBy.s
                dir == IF calls[c].order = Undef THEN "desc" ELSE calls[c].order.s
            IN /\ Len(rows) = Cardinality(DOMAIN articles)
               /\ \A a \in DOMAIN articles :
                     Cardinality({i \in 1..Len(rows) : rows[i].article_id = a}) = 1
               /\ \A i \in 1..Len(rows) :
                     LET a == articles[rows[i].article_id] IN
                     /\ DOMAIN rows[i] = {"author", "title", "article_id", "topic",
                                          "created_at", "votes", "comment_count"}
                     /\ rows[i].author = a.author /\ rows[i].title = a.title
                     /\ rows[i].topic = a.topic /\ rows[i].created_at = a.created_at
                     /\ rows[i].votes = a.votes
                     /\ rows[i].comment_count = Cardinality(CommentsOf(a.article_id))
               /\ \A i \in 1..(Len(rows) - 1) :
                     /\ dir = "asc" => SortKey(rows[i], col) <= SortKey(rows[i + 1], col)
                     /\ dir = "desc" => SortKey(rows[i], col) >= SortKey(rows[i + 1], col)

\* With both arguments omitted the three articles came newest first
C9_Witness ==
    \E c \in Callers :
        /\ calls[c].op = "fetchArticles" /\ calls[c].pc = "done"
        /\ calls[c].sortBy = Undef /\ calls[c].order = Undef
        /\ calls[c].res.kind = "return"
        /\ Len(calls[c].res.rows) = 3
        /\ calls[c].res.rows[1].article_id = 1
        /\ calls[c].res.rows[2].article_id = 3
        /\ calls[c].res.rows[3].article_id = 2

\* C10: with a topic filter the listing returns only the articles whose
\* topic equals the filter; a topic that is not in the store fails with
\* status 404 and message 'Topic not found'; a topic that exists but has no
\* article gives an empty sequence and no error.
C10_TopicFilter ==
    \A c \in Callers :
        (calls[c].op = "fetchArticles" /\ calls[c].pc = "done"
         /\ calls[c].topic.t = "string") =>
            IF calls[c].topic.s \notin Topics
            THEN calls[c].res = Reject(404, "Topic not found")
            ELSE /\ calls[c].res.kind = "return"
                 /\ {calls[c].res.rows[i].article_id : i \in 1..Len(calls[c].res.rows)}
                       = {a \in DOMAIN articles : articles[a].topic = calls[c].topic.s}

\* The text is one or more decimal digits and its value is above zero
PositiveIntegerText(s) == AllDigits(Chars(s)) /\ DigitsValue(Chars(s)) > 0

\* C11: removeComment fails with status 400 and message 'Invalid comment
\* ID' for every commentId that is not syntactically a positive integer,
\* and then hands no DELETE to the store.
C11_InvalidCommentId ==
    \A c \in Callers :
        (calls[c].op = "removeComment" /\ ~PositiveIntegerText(calls[c].id.s)) =>
            /\ calls[c].pc = "done"
            /\ calls[c].res = Reject(400, "Invalid comment ID")
            /\ calls[c].stmt = NoStmt

\* The call of caller c is executed by the store / resumes in this step
Queries(c) == calls[c].pc = "awaiting" /\ calls'[c].pc = "resumed"

Returns(c) == calls[c].pc = "resumed" /\ calls'[c].pc = "done"

\* C12: removeComment with a well-formed commentId that no stored comment
\* has fails with status 404 and message 'Comment ID not found' and leaves
\* the store unchanged; with one a stored comment has it succeeds and that
\* id is stored no more, so that removing the same comment a second time
\* fails with 404.
C12_CommentNotFound ==
    [][\A c \in Callers :
          (calls'[c].op = "removeComment" /\ PositiveIntegerText(calls'[c].id.s)) =>
            LET k == PgIntValue(calls'[c].id.s) IN
            /\ Begins(c, "removeComment") => calls'[c].pc = "awaiting"
            /\ Queries(c) =>
                  /\ k \notin DOMAIN comments'
                  /\ k \notin DOMAIN comments => store' = store
                  /\ calls'[c].reply.rowCount = IF k \in DOMAIN comments THEN 1 ELSE 0
            /\ Returns(c) =>
                  /\ calls[c].reply.rowCount = 0 =>
                        calls'[c].res = Reject(404, "Comment ID not found")
                  /\ calls[c].reply.rowCount = 1 => calls'[c].res = Return(<<>>)]_vars

\* Comment 1 was removed by the first call and the second call, for the
\* same id, has failed with 404
C12_Witness ==
    \E c \in Callers :
        /\ budget = 0
        /\ calls[c].op = "removeComment" /\ calls[c].pc = "done"
        /\ calls[c].id = Str("1")
        /\ calls[c].res = Reject(404, "Comment ID not found")
        /\ 1 \in DOMAIN InitComments /\ 1 \notin DOMAIN comments
        /\ 2 \in DOMAIN comments

\* The comments of article a in the table cs
CommentsIn(cs, a) == {k \in DOMAIN cs : cs[k].article_id = a}

\* C13: removeComment with the id of a stored comment succeeds with no
\* content and removes exactly that comment: the number of comments of its
\* article, which is what a later fetchArticleById reports as
\* comment_count, goes down by exactly 1, and every other comment, every
\* article row and every other article's count are unchanged.
C13_RemoveExactlyOne ==
    [][\A c \in Callers :
          /\ (calls[c].op = "removeComment" /\ Queries(c)
               /\ PgIntValid(calls[c].id.s)
               /\ PgIntValue(calls[c].id.s) \in DOMAIN comments) =>
                LET k == PgIntValue(calls[c].id.s) IN
                /\ DOMAIN comments' = DOMAIN comments \ {k}
                /\ \A j \in DOMAIN comments' : comments'[j] = comments[j]
                /\ articles' = articles
                /\ \A a \in DOMAIN articles :
                      Cardinality(CommentsIn(comments', a))
                        = Cardinality(CommentsIn(comments, a))
                          - (IF a = comments[k].article_id THEN 1 ELSE 0)
                /\ calls'[c].reply.rowCount = 1
          /\ (calls[c].op = "removeComment" /\ Returns(c)
               /\ calls[c].reply.rowCount = 1) =>
                /\ calls'[c].res = Return(<<>>)
                /\ store' = store
          /\ (calls[c].op = "fetchArticleById" /\ Queries(c)
               /\ Named(calls[c].id) # 0) =>
                calls'[c].reply.rows[1].comment_count
                    = Cardinality(CommentsIn(comments, Named(calls[c].id)))]_vars

\* After comment 1 of article 1 was removed, article 1 was read with
\* comment_count 1 (it was seeded with 2) and comment 2 is as seeded
C13_Witness ==
    \E c \in Callers :
        /\ budget = 0
        /\ calls[c].op = "fetchArticleById" /\ calls[c].pc = "done"
        /\ calls[c].id = Str("1")
        /\ calls[c].res.kind = "return"
        /\ calls[c].res.rows[1].comment_count = 1
        /\ Cardinality(CommentsIn(InitComments, 1)) = 2
        /\ DOMAIN comments = {2} /\ comments[2] = InitComments[2]
        /\ articles = InitArticles

\* The kind of an outcome, leaving aside which table the message names
OutcomeClass(res) == <<res.kind, res.status, res.err, Len(res.rows)>>

\* C14: updateCommentVotes behaves on comments as updateArticleVotes does
\* on articles.  For every id and incVotes its checks of incVotes give the
\* answer updateArticleVotes' checks give (400 Missing for an absent or
\* falsy value, 400 Invalid for one that is no integer); otherwise its
\* statement adds incVotes to the votes of the comment with that id, if
\* there is one, and its outcome is of the class updateArticleVotes yields
\* for the same reply of the store: 404, here with 'Comment ID not found',
\* when no row matched, the updated row when one did.
C14_SameContract ==
    [][\A c \in Callers :
          calls'[c].op = "updateCommentVotes" =>
            LET inc == calls'[c].incVotes
                id == calls'[c].id.s
            IN
            /\ Begins(c, "updateCommentVotes") =>
                  /\ IF ArticleIncVotesError(inc) # ""
                     THEN /\ calls'[c].res = Reject(400, ArticleIncVotesError(inc))
                          /\ calls'[c].pc = "done" /\ calls'[c].stmt = NoStmt
                     ELSE calls'[c].pc = "awaiting"
                  /\ inc \in {Undef, Null, Num(0), NaN} =>
                        calls'[c].res.msg = "Missing inc_votes data in request body"
                  /\ inc \in {Frac, Obj, Str("1"), Str("invalid data"), Bool(TRUE)} =>
                        calls'[c].res.msg = "Invalid inc_votes data in request body"
                  /\ store' = store
            /\ Queries(c) =>
                  /\ articles' = articles
                  /\ calls'[c].reply.err = UpdateArticlesReply(articles, id, inc.n).err
                  /\ IF PgIntValid(id) /\ PgIntValue(id) \in DOMAIN comments
                     THEN /\ comments'[PgIntValue(id)].votes
                                = comments[PgIntValue(id)].votes + inc.n
                          /\ calls'[c].reply.rows = <<comments'[PgIntValue(id)]>>
                     ELSE /\ comments' = comments
                          /\ calls'[c].reply.rows = <<>>
            /\ Returns(c) =>
                  /\ OutcomeClass(calls'[c].res)
                        = OutcomeClass(UpdateArticleOutcome(calls[c].reply))
                  /\ calls'[c].res.rows = calls[c].reply.rows
                  /\ calls'[c].res.kind = "reject" =>
                        calls'[c].res = Reject(404, "Comment ID not found")
                  /\ store' = store]_vars

\* Comment 9 does not exist: a vote update of it has failed with 404, the
\* comments as seeded
C14_Witness ==
    \E c \in Callers :
        /\ calls[c].op = "updateCommentVotes" /\ calls[c].pc = "done"
        /\ calls[c].id = Str("9") /\ calls[c].incVotes = Num(1)
        /\ calls[c].res = Reject(404, "Comment ID not found")
        /\ comments = InitComments

\* C15: insertComment for an existing article, an existing user and a body
\* adds exactly one row to the stored comments, with votes 0, that author,
\* that body, that article_id and a comment_id no stored comment has, and
\* returns that row; fetchCommentsByArticleId returns exactly the stored
\* comments of the article, each once.  So a fetch after an insert gives
\* the comments from before plus the new row.
C15_InsertThenFetch ==
    [][\A c \in Callers :
          /\ (calls[c].op = "insertComment" /\ Queries(c)
               /\ Named(calls[c].id) # 0
               /\ calls[c].author.t = "string" /\ calls[c].author.s \in Users
               /\ calls[c].body.t = "string") =>
                \E k \in DOMAIN comments' \ DOMAIN comments :
                    /\ DOMAIN comments' = DOMAIN comments \cup {k}
                    /\ \A j \in DOMAIN comments : comments'[j] = comments[j]
                    /\ comments'[k] = [comment_id |-> k,
                                       article_id |-> Named(calls[c].id),
                                       author |-> calls[c].author.s,
                                       body |-> calls[c].body.s, votes |-> 0]
                    /\ calls'[c].reply.rows = <<comments'[k]>>
                    /\ articles' = articles
          /\ (calls[c].op = "insertComment" /\ Returns(c)
               /\ Len(calls[c].reply.rows) = 1) =>
                calls'[c].res = Return(calls[c].reply.rows)
          /\ (calls[c].op = "fetchCommentsByArticleId" /\ Queries(c)
               /\ PgIntValid(calls[c].id.s)) =>
                LET rows == calls'[c].reply.rows
                    mine == CommentsIn(comments, PgIntValue(calls[c].id.s))
                IN /\ Len(rows) = Cardinality(mine)
                   /\ {rows[i] : i \in 1..Len(rows)} = {comments[k] : k \in mine}
                   /\ store' = store
          /\ (calls[c].op = "fetchCommentsByArticleId" /\ Returns(c)
               /\ calls[c].reply.err = "") =>
                calls'[c].res = Return(calls[c].reply.rows)]_vars

\* A comment was inserted on article 1 and the fetch that followed gave the
\* two seeded comments and the new one, numbered 3
C15_Witness ==
    \E c \in Callers :
        /\ budget = 0
        /\ calls[c].op = "fetchCommentsByArticleId" /\ calls[c].pc = "done"
        /\ calls[c].id = Str("1")
        /\ calls[c].res.kind = "return"
        /\ {calls[c].res.rows[i] : i \in 1..Len(calls[c].res.rows)}
              = {InitComments[1], InitComments[2],
                 [comment_id |-> 3, article_id |-> 1, author |-> "butter_bridge",
                  body |-> "c", votes |-> 0]}
        /\ Len(calls[c].res.rows) = 3

VoteRange == -2..2

\* Two updates in a row of a row of the tables as and cs leave its votes
\* where one update with the sum of their deltas leaves it
TwoAsOne(as, cs) ==
    \A id \in {Str("1"), Str("2"), Str("3")}, v1, v2 \in VoteRange :
        LET k == PgIntValue(id.s) IN
        /\ k \in DOMAIN as =>
              ArticleVotesCall(ArticleVotesCall(as, id, Num(v1)), id, Num(v2))[k].votes
                = ArticleVotesCall(as, id, Num(v1 + v2))[k].votes
        /\ k \in DOMAIN cs =>
              CommentVotesCall(CommentVotesCall(cs, id, Num(v1)), id, Num(v2))[k].votes
                = CommentVotesCall(cs, id, Num(v1 + v2))[k].votes

\* C17: for every stored article and comment and all integers v1 and v2,
\* an update with v1 followed by an update with v2 leaves the row's votes
\* at the value one update with v1+v2 leaves it at, from every store the
\* program reaches (the seeded one and the one after every step that
\* changes a table), also when v1, v2 or v1+v2 is 0: an update with 0 is
\* refused and leaves the votes as they are, which is what adding 0 gives.
\* The steps of the calls change the tables as the whole-call effect says.
C17_Associative ==
    /\ TwoAsOne(articles, comments)
    /\ [][/\ (articles' # articles \/ comments' # comments) =>
                TwoAsOne(articles', comments')
          /\ \A c \in Callers :
            /\ (Begins(c, "updateArticleVotes") /\ calls'[c].pc = "done") =>
                  articles' = ArticleVotesCall(articles, calls'[c].id, calls'[c].incVotes)
            /\ (Queries(c) /\ calls[c].op = "updateArticleVotes") =>
                  articles' = ArticleVotesCall(articles, calls[c].id, calls[c].incVotes)
            /\ (Begins(c, "updateCommentVotes") /\ calls'[c].pc = "done") =>
                  comments' = CommentVotesCall(comments, calls'[c].id, calls'[c].incVotes)
            /\ (Queries(c) /\ calls[c].op = "updateCommentVotes") =>
                  comments' = CommentVotesCall(comments, calls[c].id, calls[c].incVotes)]_vars

\* Article 1 was updated with 1 and then with -1, which sum to 0: its
\* votes are where an update with 0 leaves them, at the seeded value
C17_Witness ==
    \E c \in Callers :
        /\ budget = 0
        /\ calls[c].op = "updateArticleVotes" /\ calls[c].pc = "done"
        /\ calls[c].id = Str("1") /\ calls[c].incVotes = Num(-1)
        /\ calls[c].res.kind = "return"
        /\ Acked("articles", 1) = 0
        /\ articles[1].votes = InitArticles[1].votes
        /\ ArticleVotesCall(InitArticles, Str("1"), Num(0)) = articles

\* C18: a failure with status 400 is decided before anything is sent to
\* the store: a call of updateArticleVotes, updateCommentVotes,
\* fetchArticles or removeComment that has failed with 400 has handed the
\* store no statement and got no reply; and a vote update whose incVotes
\* is invalid fails with 400 whatever its id, so with an id that names no
\* row it is 400 and never 404.
C18_ValidationFirst ==
    \A c \in Callers :
        /\ (calls[c].res.kind = "reject" /\ calls[c].res.status = 400) =>
              /\ calls[c].op \in {"updateArticleVotes", "updateCommentVotes",
                                  "fetchArticles", "removeComment"}
              /\ calls[c].stmt = NoStmt
              /\ calls[c].reply = NoReply
        /\ (calls[c].op \in {"updateArticleVotes", "updateCommentVotes"}
             /\ ~NonZeroInteger(calls[c].incVotes)) =>
              /\ calls[c].pc = "done"
              /\ calls[c].res.kind = "reject" /\ calls[c].res.status = 400

\* An update of comment 9, which does not exist, with a text for incVotes
\* has failed with 400 and no statement was sent
C18_Witness ==
    \E c \in Callers :
        /\ calls[c].op = "updateCommentVotes" /\ calls[c].pc = "done"
        /\ calls[c].id = Str("9") /\ calls[c].incVotes = Str("invalid data")
        /\ 9 \notin DOMAIN comments
        /\ calls[c].res = Reject(400, "Invalid inc_votes data in request body")
        /\ calls[c].stmt = NoStmt

\* The request's method and path match one of the three routes registered
\* (a HEAD request matches a GET route)
Registered(method, path) ==
    \/ method \in {"GET", "HEAD"} /\ path = <<"api", "topics">>
    \/ /\ method \in {"GET", "HEAD", "PATCH"}
       /\ Len(path) = 3 /\ path[1] = "api" /\ path[2] = "articles" /\ path[3] # ""

\* The controller registered for a method and path that match a route
Controller(method, path) ==
    IF path = <<"api", "topics">> THEN "getTopics"
    ELSE IF method = "PATCH" THEN "patchArticleVotes"
    ELSE "getArticleById"

C20_Frame ==
    [][\A c \in Callers :
          /\ (calls[c].op = "updateArticleVotes" /\ Queries(c)
               /\ Named(calls[c].id) # 0) =>
                LET a == Named(calls[c].id) IN
                /\ DOMAIN articles' = DOMAIN articles
                /\ \A b \in DOMAIN articles \ {a} : articles'[b] = articles[b]
                /\ articles'[a] = [articles[a] EXCEPT !.votes = articles'[a].votes]
                /\ articles'[a].article_id = a
                /\ comments' = comments /\ comment_id_seq' = comment_id_seq
          /\ (calls[c].op = "updateCommentVotes" /\ Queries(c)
               /\ PgIntValid(calls[c].id.s)
               /\ PgIntValue(calls[c].id.s) \in DOMAIN comments) =>
                LET k == PgIntValue(calls[c].id.s) IN
                /\ DOMAIN comments' = DOMAIN comments
                /\ \A j \in DOMAIN comments \ {k} : comments'[j] = comments[j]
                /\ comments'[k] = [comments[k] EXCEPT !.votes = comments'[k].votes]
                /\ comments'[k].comment_id = k
                /\ articles' = articles /\ comment_id_seq' = comment_id_seq
          /\ (calls'[c].op \in {"updateArticleVotes", "updateCommentVotes"}
               /\ calls'[c] # calls[c] /\ ~Queries(c)) => store' = store]_vars

\* Comment 2 got one more vote; comment 1 and the articles are as seeded
C20_Witness ==
    \E c \in Callers :
        /\ calls[c].op = "updateCommentVotes" /\ calls[c].pc = "done"
        /\ calls[c].id = Str("2") /\ calls[c].incVotes = Num(1)
        /\ calls[c].res.kind = "return"
        /\ comments[2] = [InitComments[2] EXCEPT !.votes = InitComments[2].votes + 1]
        /\ comments[1] = InitComments[1] /\ DOMAIN comments = DOMAIN InitComments
        /\ articles = InitArticles

====
